---------------------------- MODULE Spec2Model ----------------------------
(***************************************************************************)
(* Verification model of the tracemyride route generation engine:          *)
(*   backend/app/services/elevation_service.py  (profile, gain/loss)       *)
(*   backend/app/services/route_generator.py    (fan generator, spurs)     *)
(*   backend/app/services/valhalla_client.py    (routing client)           *)
(*   backend/app/services/overpass_client.py    (trail attractors)         *)
(*   backend/app/api/routes.py                  (HTTP handlers)            *)
(*                                                                         *)
(* Numbers.  Python floats are modelled in fixed point:                    *)
(*   - a polyline vertex [lng, lat] lies on the equator (lat = 0) and is   *)
(*     the integer x, its easting in units of 0.4 m; haversine of two such *)
(*     vertices is R * |dlng|, i.e. |x1 - x2| units;                       *)
(*   - an elevation is an integer in units of 0.02 m, or None;             *)
(*   - round(x, 1) of an elevation sum is the nearest multiple of 5 units  *)
(*     (0.1 m), round(km, 3) of a distance the nearest metre and           *)
(*     round(km, 2) the nearest 10 m.  With these units a value is never   *)
(*     half-way between two results, so the rounding mode plays no part.   *)
(* Python's None is the empty tuple and a present value v is <<v>>.        *)
(***************************************************************************)
EXTENDS Integers, Sequences, FiniteSets, TLC

VARIABLES
    \* ---- one request to the engine (routes.py, route_generator.py) ----
    op,               \* what is asked: "generate" (POST /generate), "generate_route"
                      \* (the engine called directly) or "explore" (POST /explore)
    req,              \* the arguments of the request
    pc,               \* where the request stands
    demMode,          \* how the DEM service answers by now: "ok" or the way it fails
    trail_attractors, \* generate_route: the attractor bag
    best_bearing,     \* generate_route: the scouted bearing, or None
    scout,            \* _find_best_bearing called on its own: arguments and result
    fan,              \* locals of _generate_loop / _generate_out_and_back, the
                      \* plan of the latest routing request among them
    hist,             \* what every fan iteration carried out used and measured
    calls,            \* requests sent so far to router, DEM and Overpass
    finish,           \* how the engine call ended: value returned or exception
    http,             \* status of the HTTP response, 0 while there is none
    \* ---- profile builder (elevation_service.py) ----
    coordinates,    \* the polyline handed to get_elevation_profile
    dem,            \* the terrain: the DEM's elevation as a function of the point
    prof,           \* progress and results of the profile calls
    \* ---- spur remover (route_generator.py) ----
    coords,         \* the polyline handed to _remove_spurs
    spur            \* progress and results of the spur remover calls

gvars == <<op, req, pc, demMode, trail_attractors, best_bearing, scout, fan, hist, calls,
           finish, http>>
vars == <<op, req, pc, demMode, trail_attractors, best_bearing, scout, fan, hist, calls,
          finish, http, coordinates, dem, prof, coords, spur>>

-----------------------------------------------------------------------------
(* Bounds of the model.                                                    *)

\* short polylines: every sequence of positions up to this length
MaxShortLen == 3
\* positions (eastings) used by the polylines of the profile builder
MaxPos == 2
\* long polylines go up to MAX_POINTS + MaxExtra vertices
MaxExtra == 2
\* polylines of the spur remover: three straight runs (east, west, east) of up
\* to this many steps each
MaxSeg == 20
\* the same for the pass-by-pass specification of the spur remover
MaxPassSeg == 15

-----------------------------------------------------------------------------
(* Generic helpers.                                                        *)

None == <<>>
Some(v) == <<v>>
IsNone(o) == o = <<>>
Val(o) == o[1]

Min(a, b) == IF a <= b THEN a ELSE b
Max(a, b) == IF a >= b THEN a ELSE b
Abs(a) == IF a >= 0 THEN a ELSE 0 - a

Reverse(s) == [k \in 1..Len(s) |-> s[Len(s) + 1 - k]]

\* round(x, 1) of a non-negative elevation sum: units of 0.02 m -> nearest 0.1 m
round1(x) == 5 * ((x + 2) \div 5)
\* round(km, 3) of a non-negative distance: units of 0.4 m -> metres
round3(x) == (4 * x + 5) \div 10
\* round(km, 2) of a non-negative distance: units of 0.4 m -> tens of metres
round2(x) == (4 * x + 50) \div 100

\* exact fractions <<numerator, denominator>> in lowest terms, denominator > 0
RECURSIVE GCD(_, _)
GCD(a, b) == IF b = 0 THEN a ELSE GCD(b, a % b)
Rat(n, d) == LET g == GCD(Abs(n), d) IN <<n \div g, d \div g>>
RatMul(x, y) == Rat(x[1] * y[1], x[2] * y[2])
RatAdd(x, y) == Rat(x[1] * y[2] + y[1] * x[2], x[2] * y[2])
RatLess(x, y) == x[1] * y[2] < y[1] * x[2]
RatLeq(x, y) == x[1] * y[2] <= y[1] * x[2]
RatMin(x, y) == IF RatLeq(x, y) THEN x ELSE y
RatMax(x, y) == IF RatLeq(y, x) THEN x ELSE y

\* the engine variables while no request is modelled
NoRequest ==
    /\ op = "none" /\ req = <<>> /\ pc = "off" /\ demMode = "ok"
    /\ trail_attractors = <<>> /\ best_bearing = None /\ scout = None
    /\ fan = <<>> /\ hist = <<>>
    /\ calls = <<>> /\ finish = <<>> /\ http = 0

-----------------------------------------------------------------------------
(* utils/geo.py                                                            *)

\* great-circle distance of two equatorial vertices, in units of 0.4 m
haversine(p, q) == Abs(p - q)

-----------------------------------------------------------------------------
(* services/elevation_service.py                                           *)

BATCH_SIZE == 100
MAX_POINTS == 200

\* the DEM's stored elevation of a vertex (terrain repeats with period MaxPos+1)
DemAt(d, p) == d[p % (MaxPos + 1)]

\* what one DEM request can do
DemOutcomes == {"ok", "short", "non200", "neterr"}

_sample_coords(cs, max_points) ==
    IF Len(cs) <= max_points THEN cs
    ELSE [i \in 1..max_points |->
            IF i < max_points
            THEN cs[(((i - 1) * Len(cs)) \div max_points) + 1]
            ELSE cs[Len(cs)]]

_haversine_simple(p, q) == Abs(p - q)

\* one DEM request for the batch, by its outcome:
\*   "ok"     200 and one result per location
\*   "short"  200 and a result list that lacks the last location
\*   "non200" any other status
BatchResults(batch, d, outcome) ==
    CASE outcome = "ok"     -> [k \in 1..Len(batch) |-> DemAt(d, batch[k])]
      [] outcome = "short"  -> [k \in 1..(Len(batch) - 1) |-> DemAt(d, batch[k])]
      [] outcome = "non200" -> [k \in 1..Len(batch) |-> None]

RECURSIVE BatchLoop(_, _, _, _, _)
BatchLoop(cs, d, outcomes, b, all_elevations) ==
    LET lo == (b - 1) * BATCH_SIZE + 1
        hi == Min(b * BATCH_SIZE, Len(cs))
        batch == SubSeq(cs, lo, hi)
    IN  IF lo > Len(cs)
        THEN [raised |-> FALSE, elevations |-> all_elevations, requests |-> b - 1]
        ELSE IF outcomes[b] = "neterr"
        THEN [raised |-> TRUE, elevations |-> <<>>, requests |-> b]
        ELSE BatchLoop(cs, d, outcomes, b + 1,
                       all_elevations \o BatchResults(batch, d, outcomes[b]))

_batch_elevation_query(cs, d, outcomes) == BatchLoop(cs, d, outcomes, 1, <<>>)

\* cumulative_km of the loop of get_elevation_profile for the samples lo..hi,
\* given its value at lo; the running sum is split in halves so that a
\* profile of MAX_POINTS samples is evaluated at logarithmic depth
RECURSIVE Cumulative(_, _, _, _)
Cumulative(sampled, lo, hi, at_lo) ==
    IF lo > hi THEN <<>>
    ELSE IF lo = hi THEN <<at_lo>>
    ELSE LET mid   == (lo + hi) \div 2
             left  == Cumulative(sampled, lo, mid, at_lo)
             right == Cumulative(sampled, mid + 1, hi,
                         left[Len(left)] + _haversine_simple(sampled[mid], sampled[mid + 1]))
         IN  left \o right

get_elevation_profile(cs, d, outcomes) ==
    LET sampled == _sample_coords(cs, MAX_POINTS)
        q == _batch_elevation_query(sampled, d, outcomes)
        n == Min(Len(sampled), Len(q.elevations))
        cumulative_km == Cumulative(sampled, 1, n, 0)
    IN  [raised   |-> q.raised,
         requests |-> q.requests,
         profile  |-> IF q.raised THEN <<>>
                      ELSE [i \in 1..n |->
                              [distance_km |-> round3(cumulative_km[i]),
                               elevation   |-> q.elevations[i],
                               lat         |-> 0,
                               lng         |-> sampled[i]]]]

\* GainOfPair that takes an unknown previous elevation for 0
GainOfPair_UnknownAsZero(profile, i) ==
    LET prev == IF IsNone(profile[i - 1].elevation) THEN 0 ELSE Val(profile[i - 1].elevation)
        curr == profile[i].elevation
    IN  IF ~IsNone(curr) /\ Val(curr) - prev > 0 THEN Val(curr) - prev ELSE 0

\* what the pair of samples (i-1, i) adds to gain and to loss
GainOfPair(profile, i) ==
    LET prev == profile[i - 1].elevation
        curr == profile[i].elevation
    IN  IF ~IsNone(prev) /\ ~IsNone(curr) /\ Val(curr) - Val(prev) > 0
        THEN Val(curr) - Val(prev) ELSE 0

LossOfPair(profile, i) ==
    LET prev == profile[i - 1].elevation
        curr == profile[i].elevation
    IN  IF ~IsNone(prev) /\ ~IsNone(curr) /\ ~(Val(curr) - Val(prev) > 0)
        THEN Abs(Val(curr) - Val(prev)) ELSE 0

\* the loop of compute_elevation_stats over the samples lo..hi, as <<gain, loss>>
\* (split in halves, as Cumulative is)
RECURSIVE StatsLoop(_, _, _)
StatsLoop(profile, lo, hi) ==
    IF lo > hi THEN <<0, 0>>
    ELSE IF lo = hi THEN <<GainOfPair(profile, lo), LossOfPair(profile, lo)>>
    ELSE LET mid == (lo + hi) \div 2
             a == StatsLoop(profile, lo, mid)
             b == StatsLoop(profile, mid + 1, hi)
         IN  <<a[1] + b[1], a[2] + b[2]>>

compute_elevation_stats(profile) ==
    LET s == StatsLoop(profile, 2, Len(profile))
    IN  <<round1(s[1]), round1(s[2])>>

-----------------------------------------------------------------------------
(* Inputs of the profile builder.                                          *)

Positions == 0..MaxPos
ElevValues == {None, Some(0), Some(3)}
Dems == [Positions -> ElevValues]

ShortPolylines == UNION {[1..n -> Positions] : n \in 0..MaxShortLen}

\* long polylines: the k-th of L vertices by a pattern
PatternAt(pat, k, L) ==
    CASE pat = "cycle" -> (k - 1) % (MaxPos + 1)
      [] pat = "bump"  -> IF k = 2 THEN 1 ELSE 0
      [] pat = "ramp"  -> (k - 1) \div BATCH_SIZE
Patterns == {"cycle", "bump", "ramp"}
LongLens == {BATCH_SIZE + 1, MAX_POINTS} \cup {MAX_POINTS + x : x \in 1..MaxExtra}
LongPolylines == {[k \in 1..L |-> PatternAt(pat, k, L)] : pat \in Patterns, L \in LongLens}

Polylines == ShortPolylines \cup LongPolylines

\* number of DEM requests a polyline of n vertices needs
NumBatches(n) == (Min(n, MAX_POINTS) + BATCH_SIZE - 1) \div BATCH_SIZE

NoResponse == [raised |-> FALSE, requests |-> 0, profile |-> <<>>, gain |-> 0, loss |-> 0]

-----------------------------------------------------------------------------
(* api/routes.py: POST /elevation/profile                                  *)

\* the handler's work on one polyline: the profile, then gain and loss; a
\* network error of the DEM request is not caught and ends the request
elevation_profile(cs, d, outcomes) ==
    LET r == get_elevation_profile(cs, d, outcomes)
        s == compute_elevation_stats(r.profile)
    IN  [raised   |-> r.raised,
         requests |-> r.requests,
         profile  |-> r.profile,
         gain     |-> IF r.raised THEN 0 ELSE s[1],
         loss     |-> IF r.raised THEN 0 ELSE s[2]]

ProfileInit ==
    /\ coordinates \in Polylines
    /\ dem \in Dems
    /\ prof = [pc |-> "idle", outcomes |-> <<>>, fwd |-> NoResponse, rev |-> NoResponse]
    /\ coords = <<>>
    /\ spur = [pc |-> "off"]
    /\ NoRequest

\* a client asks for the profile of the polyline
ProfileRequest ==
    /\ prof.pc = "idle"
    /\ \E outcomes \in [1..NumBatches(Len(coordinates)) -> DemOutcomes] :
          prof' = [prof EXCEPT !.pc = "first",
                               !.outcomes = outcomes,
                               !.fwd = elevation_profile(coordinates, dem, outcomes)]
    /\ UNCHANGED <<gvars, coordinates, dem, coords, spur>>

\* the client asks again for the same polyline walked the other way; the DEM
\* service answers each request of the batch sequence as it did before
ProfileRequestReversed ==
    /\ prof.pc = "first"
    /\ prof' = [prof EXCEPT !.pc = "second",
                            !.rev = elevation_profile(Reverse(coordinates), dem, prof.outcomes)]
    /\ UNCHANGED <<gvars, coordinates, dem, coords, spur>>

ProfileNext == ProfileRequest \/ ProfileRequestReversed

SpecProfile == ProfileInit /\ [][ProfileNext]_vars

-----------------------------------------------------------------------------
(* Properties of the profile builder (checked under SpecProfile).          *)

\* the DEM request that carries the k-th sample
BatchOf(k) == ((k - 1) \div BATCH_SIZE) + 1
FailedOutcome(o) == o \in {"non200", "neterr"}
AllOutcomesIn(S) == \A b \in DOMAIN prof.outcomes : prof.outcomes[b] \in S
Sampled == _sample_coords(coordinates, MAX_POINTS)
TotalDistance(p) == IF Len(p) = 0 THEN 0 ELSE p[Len(p)].distance_km

\* sum of f over lo..hi
RECURSIVE SumOver(_, _, _)
SumOver(f, lo, hi) ==
    IF lo > hi THEN 0
    ELSE IF lo = hi THEN f[lo]
    ELSE SumOver(f, lo, (lo + hi) \div 2) + SumOver(f, ((lo + hi) \div 2) + 1, hi)

\* reference gain and loss of a profile, unrounded: the deltas of the adjacent
\* pairs whose two elevations are known
KnownPair(p, i) == p[i - 1].elevation # None /\ p[i].elevation # None
Delta(p, i) == p[i].elevation[1] - p[i - 1].elevation[1]
RefGain(p) ==
    SumOver([i \in 2..Len(p) |-> IF KnownPair(p, i) /\ Delta(p, i) > 0 THEN Delta(p, i) ELSE 0],
            2, Len(p))
RefLoss(p) ==
    SumOver([i \in 2..Len(p) |-> IF KnownPair(p, i) /\ Delta(p, i) < 0 THEN 0 - Delta(p, i) ELSE 0],
            2, Len(p))
\* r is x rounded to one decimal (0.1 m is 5 units)
IsRounded1(r, x) == r % 5 = 0 /\ Abs(r - x) <= 2

\* C6: when a DEM batch fails, by a non-200 answer or by a network error (the
\* other batches answering in full), exactly the samples of that batch get null
\* elevation, the samples of the other batches keep the DEM's elevations, and
\* the profile call completes with a gain and a loss.
C6_FailedBatchOnlyNullsItsSamples ==
    ( /\ prof.pc # "idle"
      /\ AllOutcomesIn({"ok", "non200", "neterr"})
      /\ \E b \in DOMAIN prof.outcomes : FailedOutcome(prof.outcomes[b]) )
    => /\ ~prof.fwd.raised
       /\ Len(prof.fwd.profile) = Len(Sampled)
       /\ \A k \in 1..Len(Sampled) :
             prof.fwd.profile[k].elevation =
                IF FailedOutcome(prof.outcomes[BatchOf(k)]) THEN None
                ELSE DemAt(dem, Sampled[k])
       /\ prof.fwd.gain >= 0 /\ prof.fwd.loss >= 0

\* C7: for every polyline and every answer of the DEM service the profile has
\* exactly min(200, len(polyline)) samples, its last sample is the last
\* polyline vertex, its first cumulative distance is 0 and the cumulative
\* distances never decrease.
C7_ProfileShape ==
    (prof.pc # "idle" /\ ~prof.fwd.raised)
    => LET p == prof.fwd.profile
       IN  /\ Len(p) = Min(MAX_POINTS, Len(coordinates))
           /\ (Len(p) > 0 => p[Len(p)].lng = coordinates[Len(coordinates)])
           /\ (Len(p) > 0 => p[1].distance_km = 0)
           /\ \A i \in 2..Len(p) : p[i - 1].distance_km <= p[i].distance_km

\* C8 as stated: gain and loss are never negative, gain is exactly the sum of
\* the positive deltas and loss exactly the sum of the absolute negative deltas
\* over the adjacent pairs with two known elevations.
C8_GainLossExactSums ==
    (prof.pc # "idle" /\ ~prof.fwd.raised)
    => /\ prof.fwd.gain >= 0 /\ prof.fwd.loss >= 0
       /\ prof.fwd.gain = RefGain(prof.fwd.profile)
       /\ prof.fwd.loss = RefLoss(prof.fwd.profile)

\* C8 amended: gain and loss are never negative, gain is the sum of the
\* positive deltas and loss the sum of the absolute negative deltas over the
\* adjacent pairs with two known elevations, each rounded to one decimal; a
\* pair with an unknown endpoint adds to neither.
C8_GainLossRoundedSums ==
    (prof.pc # "idle" /\ ~prof.fwd.raised)
    => /\ prof.fwd.gain >= 0 /\ prof.fwd.loss >= 0
       /\ IsRounded1(prof.fwd.gain, RefGain(prof.fwd.profile))
       /\ IsRounded1(prof.fwd.loss, RefLoss(prof.fwd.profile))

\* a profile with a climb, a descent and a pair with an unknown endpoint
C8_Witness ==
    LET p == prof.fwd.profile
    IN  /\ prof.pc # "idle" /\ ~prof.fwd.raised
        /\ prof.fwd.gain > 0 /\ prof.fwd.loss > 0
        /\ \E i \in 2..Len(p) : ~KnownPair(p, i) /\ (p[i].elevation # None \/ p[i - 1].elevation # None)

\* C9: with a DEM that is a fixed function of the point, the profile of the
\* reversed polyline has gain and loss swapped and the same total distance,
\* for a polyline of any length.
C9_ReversalSwapsGainLoss ==
    (prof.pc = "second" /\ AllOutcomesIn({"ok"}))
    => /\ prof.rev.gain = prof.fwd.loss
       /\ prof.rev.loss = prof.fwd.gain
       /\ TotalDistance(prof.rev.profile) = TotalDistance(prof.fwd.profile)

\* C18: within one profile call the DEM is asked in chunks of at most 100
\* points and the answers are put together in input order: whatever each
\* batch's answer is (200 with all results, 200 with fewer results than points,
\* non-200), the elevation of the k-th sample is the DEM's elevation of the
\* k-th sampled vertex, or null, never the elevation of another vertex.
C18_ElevationsInInputOrder ==
    (prof.pc # "idle" /\ AllOutcomesIn({"ok", "short", "non200"}))
    => /\ prof.fwd.requests = NumBatches(Len(coordinates))
       /\ \A k \in 1..Len(prof.fwd.profile) :
             prof.fwd.profile[k].elevation \in {None, DemAt(dem, Sampled[k])}

-----------------------------------------------------------------------------
(* services/route_generator.py: the spur remover                           *)

\* default of the parameter threshold_m, in metres
threshold_m == 30
\* polylines shorter than this are returned unchanged
SPUR_MIN_COORDS == 20
min_spur == 6

\* dist < threshold_km, for a distance in units of 0.4 m
BelowThreshold(dist) == 4 * dist < 10 * threshold_m

\* the for loop over j in range(j, hi): the first j whose vertex is within the
\* threshold of vertex i, or None (indices count from 0, as in the source)
RECURSIVE FindJ(_, _, _, _)
FindJ(result, i, j, hi) ==
    IF j >= hi THEN None
    ELSE IF BelowThreshold(haversine(result[i + 1], result[j + 1])) THEN Some(j)
    ELSE FindJ(result, i, j + 1, hi)

\* Scan whose search for j starts at i + 3 in place of i + min_spur
RECURSIVE Scan_ShortSpur(_, _)
Scan_ShortSpur(result, i) ==
    IF ~(i < Len(result) - min_spur) THEN None
    ELSE LET max_spur == Len(result) \div 3
             found_j == FindJ(result, i, i + 3, Min(i + max_spur, Len(result)))
         IN  IF found_j # None THEN Some(<<i, Val(found_j)>>)
             ELSE Scan_ShortSpur(result, i + 1)

\* Scan whose search for j is not limited by max_spur
RECURSIVE Scan_NoMaxSpur(_, _)
Scan_NoMaxSpur(result, i) ==
    IF ~(i < Len(result) - min_spur) THEN None
    ELSE LET found_j == FindJ(result, i, i + min_spur, Len(result))
         IN  IF found_j # None THEN Some(<<i, Val(found_j)>>)
             ELSE Scan_NoMaxSpur(result, i + 1)

\* the inner while loop from index i on: the first <<i, found_j>>, or None
RECURSIVE Scan(_, _)
Scan(result, i) ==
    IF ~(i < Len(result) - min_spur) THEN None
    ELSE LET max_spur == Len(result) \div 3
             found_j == FindJ(result, i, i + min_spur, Min(i + max_spur, Len(result)))
         IN  IF found_j # None THEN Some(<<i, Val(found_j)>>)
             ELSE Scan(result, i + 1)

\* Splice with the two kept parts joined in the wrong order
Splice_Swapped(result, i, found_j) ==
    SubSeq(result, found_j + 1, Len(result)) \o SubSeq(result, 1, i + 1)

\* result[: i + 1] + result[found_j:]
Splice(result, i, found_j) ==
    SubSeq(result, 1, i + 1) \o SubSeq(result, found_j + 1, Len(result))

\* SpurLoop that cuts the first spur found and does not scan again
SpurLoop_OneCut(result) ==
    LET m == Scan(result, 0)
    IN  IF m = None THEN result
        ELSE Splice(result, Val(m)[1], Val(m)[2])

\* the outer while loop: scan, cut, rescan from the start, until a scan finds nothing
RECURSIVE SpurLoop(_)
SpurLoop(result) ==
    LET m == Scan(result, 0)
    IN  IF m = None THEN result
        ELSE SpurLoop(Splice(result, Val(m)[1], Val(m)[2]))

_remove_spurs(cs) ==
    IF Len(cs) < SPUR_MIN_COORDS THEN cs ELSE SpurLoop(cs)

RECURSIVE DistanceLoop(_, _)
DistanceLoop(cs, i) ==
    IF i > Len(cs) THEN 0
    ELSE haversine(cs[i - 1], cs[i]) + DistanceLoop(cs, i + 1)

\* total length of a polyline, in units of 0.4 m
_coords_distance_km(cs) == DistanceLoop(cs, 2)

-----------------------------------------------------------------------------
(* Inputs of the spur remover: a walk along the equator from 0, segs[1]    *)
(* steps east, segs[2] steps west, segs[3] steps east, one vertex a step.  *)

\* step lengths in units of 0.4 m: 10 m, 20 m, 40 m
StepUnits == {25, 50, 100}

WalkAt(segs, k) ==
    IF k <= segs[1] THEN k
    ELSE IF k <= segs[1] + segs[2] THEN 2 * segs[1] - k
    ELSE k - 2 * segs[2]

Walk(segs, step) ==
    [k \in 1..(1 + segs[1] + segs[2] + segs[3]) |-> step * WalkAt(segs, k - 1)]

SpurInputs == {Walk(segs, step) : segs \in [1..3 -> 0..MaxSeg], step \in StepUnits}

SpurInit ==
    /\ coords \in SpurInputs
    /\ spur = [pc |-> "input", once |-> <<>>, twice |-> <<>>]
    /\ coordinates = <<>>
    /\ dem = <<>>
    /\ prof = [pc |-> "off"]
    /\ NoRequest

\* the polyline is cleaned
RemoveSpurs ==
    /\ spur.pc = "input"
    /\ spur' = [spur EXCEPT !.pc = "once", !.once = _remove_spurs(coords)]
    /\ UNCHANGED <<gvars, coordinates, dem, prof, coords>>

\* the cleaned polyline is cleaned again
RemoveSpursAgain ==
    /\ spur.pc = "once"
    /\ spur' = [spur EXCEPT !.pc = "twice", !.twice = _remove_spurs(spur.once)]
    /\ UNCHANGED <<gvars, coordinates, dem, prof, coords>>

SpurNext == RemoveSpurs \/ RemoveSpursAgain

SpecSpurs == SpurInit /\ [][SpurNext]_vars

\* C10: _remove_spurs is idempotent: cleaning a cleaned polyline changes
\* nothing, also when the first cleaning shortened the polyline (so that
\* max_spur = len/3 changed) or brought it below 20 vertices.
C10_RemoveSpursIdempotent ==
    spur.pc = "twice" => spur.twice = spur.once

\* a polyline that the first cleaning cut down to fewer than 20 vertices
C10_Witness ==
    /\ spur.pc = "twice"
    /\ Len(spur.once) < Len(coords)
    /\ Len(spur.once) < SPUR_MIN_COORDS

\* a polyline that the first cleaning cut and that is still 20 vertices or more
C10_WitnessLong ==
    /\ spur.pc = "twice"
    /\ Len(spur.once) < Len(coords)
    /\ Len(spur.once) >= SPUR_MIN_COORDS
    /\ Len(spur.once) \div 3 < Len(coords) \div 3

\* C11: _remove_spurs is distance-monotone: the cleaned polyline has no more
\* vertices than the input and its summed segment distance is no greater.
C11_RemoveSpursDistanceMonotone ==
    spur.pc # "input"
    => /\ Len(spur.once) <= Len(coords)
       /\ _coords_distance_km(spur.once) <= _coords_distance_km(coords)

\* a polyline of which something was cut, and which got strictly shorter
C11_Witness ==
    /\ spur.pc = "once"
    /\ Len(spur.once) < Len(coords)
    /\ _coords_distance_km(spur.once) < _coords_distance_km(coords)

\* scenario S4: from 0 east over 20 vertices at 20 m steps, back to 0 along the
\* same line, then 20 more vertices east
S4 == Walk(<<20, 20, 20>>, 50)
\* length of the spur of S4: 20 steps of 20 m, in units of 0.4 m
S4SpurLength == 20 * 50
\* every vertex lies east of the one before
MonotoneEast(cs) == \A k \in 2..Len(cs) : cs[k - 1] < cs[k]

\* C12: on the polyline of scenario S4 the output of _remove_spurs is monotone
\* east with no backtracking vertex and is shorter than the input by at least
\* twice the spur length.
C12_S4SpurRemoved ==
    (coords = S4 /\ spur.pc # "input")
    => /\ MonotoneEast(spur.once)
       /\ _coords_distance_km(coords) - _coords_distance_km(spur.once) >= 2 * S4SpurLength

-----------------------------------------------------------------------------
(* _remove_spurs pass by pass: one step for the length check of lines      *)
(* 384-385, one step for each pass of the loop `while changed`.            *)

\* the walks the pass-by-pass specification starts from
SpurPassInputs == {Walk(segs, step) : segs \in [1..3 -> 0..MaxPassSeg], step \in StepUnits}

SpurPassInit ==
    /\ coords \in SpurPassInputs
    /\ spur = [pc |-> "called", result |-> coords, cut |-> None]
    /\ coordinates = <<>>
    /\ dem = <<>>
    /\ prof = [pc |-> "off"]
    /\ NoRequest

\* lines 384-389: a polyline of fewer than 20 vertices is returned as it is
RemoveSpursEnter ==
    /\ spur.pc = "called"
    /\ spur' = [spur EXCEPT !.pc = IF Len(coords) < SPUR_MIN_COORDS THEN "returned"
                                   ELSE "scan"]
    /\ UNCHANGED <<gvars, coordinates, dem, prof, coords>>

\* lines 392-411: one pass of the outer loop: the scan from index 0, and either
\* the splice at the first match (changed = True, the loop goes on) or, with
\* no match, the end of the loop and the return of line 413
RemoveSpursPass ==
    /\ spur.pc = "scan"
    /\ LET m == Scan(spur.result, 0)
       IN  IF m = None
           THEN spur' = [spur EXCEPT !.pc = "returned"]
           ELSE spur' = [spur EXCEPT
                            !.result = Splice(spur.result, Val(m)[1], Val(m)[2]),
                            !.cut = Some([i |-> Val(m)[1], found_j |-> Val(m)[2],
                                          len |-> Len(spur.result)])]
    /\ UNCHANGED <<gvars, coordinates, dem, prof, coords>>

SpurPassNext == RemoveSpursEnter \/ RemoveSpursPass

SpecSpurPasses == SpurPassInit /\ [][SpurPassNext]_vars

\* the call runs on: nothing but its own steps decides when it goes ahead
FairSpecSpurPasses == SpecSpurPasses /\ WF_vars(SpurPassNext)

\* C19: _remove_spurs always terminates: a pass that finds a match removes at
\* least min_spur - 1 = 5 vertices, so the vertex count strictly decreases
\* from pass to pass, and the call returns after a pass that finds no match.
C19_RemoveSpursTerminates ==
    /\ [][spur'.result # spur.result => Len(spur'.result) <= Len(spur.result) - 5]_vars
    /\ [][spur'.pc = "returned" /\ spur.pc = "scan" => Scan(spur.result, 0) = None]_vars
    /\ <>(spur.pc = "returned")

\* the call has returned after three passes that cut and one that found nothing
C19_Witness ==
    /\ spur.pc = "returned"
    /\ spur.cut # None
    /\ Len(coords) - Len(spur.result) >= 3 * (min_spur - 1)
    /\ Val(spur.cut).len < Len(coords) - (min_spur - 1)

\* a is a subsequence of b: the vertices of a from index i on are found, in
\* order, among those of b from index j on
RECURSIVE SubsequenceFrom(_, _, _, _)
SubsequenceFrom(a, i, b, j) ==
    IF i > Len(a) THEN TRUE
    ELSE IF j > Len(b) THEN FALSE
    ELSE IF a[i] = b[j] THEN SubsequenceFrom(a, i + 1, b, j + 1)
    ELSE SubsequenceFrom(a, i, b, j + 1)

\* the polyline ends within the threshold of where it starts
ClosedLoop(cs) == BelowThreshold(haversine(cs[1], cs[Len(cs)]))

\* C20: at every pass, and so at the return, the result of _remove_spurs is an
\* order-preserving subsequence of the input with the input's first and last
\* vertices; a splice spans fewer than len/3 vertices, so that no splice goes
\* from the first vertex to the last and a closed loop is not collapsed.
C20_RemoveSpursSubsequence ==
    /\ SubsequenceFrom(spur.result, 1, coords, 1)
    /\ spur.result[1] = coords[1]
    /\ spur.result[Len(spur.result)] = coords[Len(coords)]
    /\ spur.cut # None
       => LET c == Val(spur.cut)
          IN  /\ 3 * (c.found_j - c.i) < c.len
              /\ ~(c.i = 0 /\ c.found_j = c.len - 1)
              /\ ClosedLoop(coords) => Len(spur.result) > 2

\* a closed loop of which a spur was cut
C20_Witness ==
    /\ spur.pc = "returned"
    /\ spur.cut # None
    /\ ClosedLoop(coords)
    /\ Len(spur.result) < Len(coords)

-----------------------------------------------------------------------------
(* The services around the engine, as one request sees them.               *)

\* DEM: the service answers in full until, at some request, it starts to
\* fail in one way and goes on failing in that way; the outcomes the next m
\* requests can have
DemAnswers(mode, m) ==
    IF mode # "ok" THEN {[b \in 1..m |-> mode]}
    ELSE {[b \in 1..m |-> IF b < k THEN "ok" ELSE o] : k \in 1..(m + 1), o \in DemOutcomes}

\* the mode of the service after these outcomes
DemModeAfter(mode, outcomes) ==
    IF Len(outcomes) = 0 THEN mode ELSE outcomes[Len(outcomes)]

\* terrain of the engine requests: a hill of 0.8 m at every third point
Hill == [p \in Positions |-> IF p = 1 THEN Some(40) ELSE Some(0)]

\* a trail attractor, by its bearing (degrees) and distance (units of 0.4 m)
\* from the start point
AttractorBags ==
    { <<>>,
      << [bearing |-> 100, dist |-> 100], [bearing |-> 95, dist |-> 150],
         [bearing |-> 250, dist |-> 100] >> }

\* what the Overpass request can do
OverpassOutcomes ==
    {[status |-> "200", attractors |-> bag] : bag \in AttractorBags}
    \cup {[status |-> st, attractors |-> <<>>] : st \in {"timeout", "429", "500", "neterr"}}

\* the routes the router can answer with: reported length (units of 0.4 m)
\* and decoded shape
Routes ==
    [ exact |-> [distance_km |-> 1000, coordinates |-> <<0, 1, 2>>],
      half  |-> [distance_km |-> 500,  coordinates |-> <<1, 0>>],
      spur  |-> [distance_km |-> 1500, coordinates |-> Walk(<<10, 8, 5>>, 50)],
      zero  |-> [distance_km |-> 0,    coordinates |-> <<>>] ]
RouteIds == DOMAIN Routes

\* what one routing request can do
RouterOutcomes ==
    {[status |-> "200", route |-> id] : id \in RouteIds}
    \cup {[status |-> st, route |-> "none"] : st \in {"503", "unreachable"}}

\* values random.uniform(0, 360) is let to take
RandomBearings == {0, 135}

-----------------------------------------------------------------------------
(* services/overpass_client.py                                             *)

\* explore_routes: the exception raised, or None with the sampled attractors
explore_routes(o) ==
    CASE o.status = "200"     -> [exc |-> None, attractors |-> o.attractors]
      [] o.status = "timeout" -> [exc |-> Some("OverpassError"), attractors |-> <<>>]
      [] o.status = "429"     -> [exc |-> Some("OverpassError"), attractors |-> <<>>]
      [] o.status = "neterr"  -> [exc |-> Some("ConnectError"), attractors |-> <<>>]
      [] OTHER                -> [exc |-> Some("OverpassError"), attractors |-> <<>>]

\* get_trail_attractors: an OverpassError is caught and gives no attractors,
\* any other exception passes through
get_trail_attractors(o) ==
    LET r == explore_routes(o)
    IN  IF r.exc = Some("OverpassError") THEN [exc |-> None, attractors |-> <<>>]
        ELSE r

-----------------------------------------------------------------------------
(* services/valhalla_client.py                                             *)

\* route: a non-200 answer raises ValhallaError; the error of an unreachable
\* router is raised by the HTTP client and passes through
route(o) ==
    CASE o.status = "200"         -> [exc |-> None, result |-> o.route]
      [] o.status = "unreachable" -> [exc |-> Some("ConnectError"), result |-> "none"]
      [] OTHER                    -> [exc |-> Some("ValhallaError"), result |-> "none"]

-----------------------------------------------------------------------------
(* services/route_generator.py: the bearing scout                          *)

MAX_ITERATIONS == 6
TOLERANCE == <<15, 100>>
ELEVATION_TOLERANCE == <<30, 100>>
NUM_WAYPOINTS == 6
NUM_SCOUT_BEARINGS == 12

\* Python truth value of a float | None
Truthy_NotNone(o) == o # None

Truthy(o) == o # None /\ Val(o) # 0

\* scout_radius of generate_route (pi taken as 355/113)
ScoutRadius(rq) ==
    IF rq.loop THEN Rat(rq.distance_km * 113, 2 * 355)
    ELSE Rat(rq.distance_km * 35, 100)

_trail_density_in_cone(bearing_deg, radius_km, attractors) ==
    IF attractors = <<>> THEN <<0, 1>>
    ELSE LET InCone(a) ==
                 LET diff0 == Abs(a.bearing - bearing_deg)
                     diff  == IF diff0 > 180 THEN 360 - diff0 ELSE diff0
                 IN  ~RatLess(radius_km, <<a.dist, 1>>) /\ diff <= 15
             count == Cardinality({k \in DOMAIN attractors : InCone(attractors[k])})
         IN  RatMin(Rat(count, 10), <<1, 1>>)

\* the elevations of the scouted points: the k-th candidate is point k - 1
ScoutCoords == [k \in 1..NUM_SCOUT_BEARINGS |-> k - 1]

SetMin(S) == CHOOSE x \in S : \A y \in S : x <= y
SetMax(S) == CHOOSE x \in S : \A y \in S : x >= y

\* the scoring loop of _find_best_bearing from candidate k on
RECURSIVE ScoutLoop(_, _, _, _, _, _, _, _)
ScoutLoop(k, elevations, min_elev, elev_range, radius_km, attractors, bearing, score_) ==
    IF k > Min(NUM_SCOUT_BEARINGS, Len(elevations)) THEN bearing
    ELSE LET bearing_deg == (k - 1) * (360 \div NUM_SCOUT_BEARINGS)
             elev        == elevations[k]
             elev_score  == IF elev # None THEN Rat(Val(elev) - min_elev, elev_range)
                            ELSE <<0, 1>>
             trail_score == _trail_density_in_cone(bearing_deg,
                                RatMul(radius_km, <<3, 2>>), attractors)
             score       == IF attractors # <<>>
                            THEN RatAdd(RatMul(<<6, 10>>, elev_score),
                                        RatMul(<<4, 10>>, trail_score))
                            ELSE elev_score
         IN  IF score_ = None \/ RatLess(Val(score_), score)
             THEN ScoutLoop(k + 1, elevations, min_elev, elev_range, radius_km,
                            attractors, bearing_deg, Some(score))
             ELSE ScoutLoop(k + 1, elevations, min_elev, elev_range, radius_km,
                            attractors, bearing, score_)

\* _find_best_bearing, given the DEM's answer and the random draw
_find_best_bearing(elevations, radius_km, attractors, random_bearing) ==
    LET valid_elevs == {Val(elevations[k]) : k \in {j \in DOMAIN elevations : elevations[j] # None}}
        min_elev    == IF valid_elevs # {} THEN SetMin(valid_elevs) ELSE 0
        max_elev    == IF valid_elevs # {} THEN SetMax(valid_elevs) ELSE 0
        elev_range  == IF max_elev > min_elev THEN max_elev - min_elev ELSE 1
    IN  ScoutLoop(1, elevations, min_elev, elev_range, radius_km, attractors,
                  random_bearing, None)

\* _find_trail_bearing: the centre of the sector with most attractors
_find_trail_bearing(attractors) ==
    IF attractors = <<>> THEN None
    ELSE LET sector_size == 360 \div NUM_SCOUT_BEARINGS
             counts == [idx \in 0..(NUM_SCOUT_BEARINGS - 1) |->
                          Cardinality({k \in DOMAIN attractors :
                              (attractors[k].bearing \div sector_size) % NUM_SCOUT_BEARINGS = idx})]
             max_count == SetMax({counts[idx] : idx \in DOMAIN counts})
             best_idx == SetMin({idx \in DOMAIN counts : counts[idx] = max_count})
         IN  IF max_count = 0 THEN None
             ELSE Some(best_idx * sector_size + sector_size \div 2)

-----------------------------------------------------------------------------
(* utils/geo.py and the waypoint plans.  A point of a plan is <<east, north>> *)
(* on the plane through the start point, which is <<0, 0>>, in units of      *)
(* 0.4 m; sines and cosines are taken in thousandths, for whole multiples of *)
(* 5 degrees, which all bearings of the model are.                           *)

start == <<0, 0>>

\* 1000 * sin(5k degrees), k = 0..18
SinTable ==
    <<0, 87, 174, 259, 342, 423, 500, 574, 643, 707, 766, 819, 866, 906, 940, 966, 985, 996, 1000>>

SinMilli(deg) ==
    LET a == deg % 360
    IN  IF a <= 90 THEN SinTable[(a \div 5) + 1]
        ELSE IF a <= 180 THEN SinTable[((180 - a) \div 5) + 1]
        ELSE IF a <= 270 THEN 0 - SinTable[((a - 180) \div 5) + 1]
        ELSE 0 - SinTable[((360 - a) \div 5) + 1]
CosMilli(deg) == SinMilli(deg + 90)

\* n / d to the nearest integer, d > 0
RoundDiv(n, d) == (2 * n + d) \div (2 * d)

\* a fraction to the nearest whole unit, and to the nearest thousandth (in
\* thousandths; a fraction of large terms is first cut down to six digits)
Units(x) == RoundDiv(x[1], x[2])
Milli(x) ==
    LET k == (Max(Abs(x[1]), x[2]) \div 1000000) + 1
    IN  RoundDiv(1000 * (x[1] \div k), Max(1, x[2] \div k))

\* destination_point from the start point, distance_km in whole units of 0.4 m
destination_point(bearing_deg, distance_km) ==
    << RoundDiv(distance_km * SinMilli(bearing_deg), 1000),
       RoundDiv(distance_km * CosMilli(bearing_deg), 1000) >>

\* where a trail attractor lies
AttractorPoint(a) == destination_point(a.bearing, a.dist)

\* square of the distance of two points of the plane
Dist2(p, q) == (p[1] - q[1]) * (p[1] - q[1]) + (p[2] - q[2]) * (p[2] - q[2])

\* the loop of lines 195-199 from attractor k on: index of the nearest
\* attractor so far (the first of them wins)
RECURSIVE NearestLoop(_, _, _, _)
NearestLoop(wp, attractors, k, nearest) ==
    IF k > Len(attractors) THEN nearest
    ELSE IF nearest = 0
            \/ Dist2(wp, AttractorPoint(attractors[k]))
                 < Dist2(wp, AttractorPoint(attractors[nearest]))
         THEN NearestLoop(wp, attractors, k + 1, k)
         ELSE NearestLoop(wp, attractors, k + 1, nearest)

\* strength is a fraction, max_dist_km is in whole units of 0.4 m
_snap_toward_trail(wp, attractors, strength, max_dist_km) ==
    IF attractors = <<>> THEN wp
    ELSE LET nearest == AttractorPoint(attractors[NearestLoop(wp, attractors, 1, 0)])
             too_far == Dist2(wp, nearest) > max_dist_km * max_dist_km
         IN  IF too_far THEN wp
             ELSE << wp[1] + RoundDiv(strength[1] * (nearest[1] - wp[1]), strength[2]),
                     wp[2] + RoundDiv(strength[1] * (nearest[2] - wp[2]), strength[2]) >>

_compute_loop_waypoints(radius_km, base_angle, elongation, uphill_bearing, attractors) ==
    LET angle_step == 360 \div NUM_WAYPOINTS
        Waypoint(i) ==
            LET angle == base_angle + i * angle_step
                uphill_factor == Max(0, CosMilli(angle - Val(uphill_bearing)))
                \* 1.0 + (elongation - 1.0) * uphill_factor, in thousandths
                stretch == 1000 + RoundDiv((Milli(elongation) - 1000) * uphill_factor, 1000)
                wp_radius ==
                    IF elongation # <<1, 1>> /\ uphill_bearing # None
                    THEN RoundDiv(Units(radius_km) * stretch, 1000)
                    ELSE Units(radius_km)
                wp == destination_point(angle, wp_radius)
            IN  IF attractors # <<>>
                THEN _snap_toward_trail(wp, attractors, <<4, 10>>, Units(radius_km))
                ELSE wp
    IN  <<start>> \o [k \in 1..NUM_WAYPOINTS |-> Waypoint(k - 1)] \o <<start>>

\* OutAndBackWaypoints without the way back to the start
OutAndBackWaypoints_OneWay(bearing_deg, target_straight, attractors) ==
    <<start, destination_point(bearing_deg, Units(target_straight))>>

\* lines 301-304: the plan of an out-and-back iteration (max_dist_km of the
\* snap is its default, 2 km)
OutAndBackWaypoints(bearing_deg, target_straight, attractors) ==
    LET wp == destination_point(bearing_deg, Units(target_straight))
    IN  << start,
           IF attractors # <<>> THEN _snap_toward_trail(wp, attractors, <<5, 10>>, 5000)
           ELSE wp,
           start >>

-----------------------------------------------------------------------------
(* services/route_generator.py: the waypoint fan generator                 *)

\* FanContinues with the bound off by one
FanContinues_OffByOne(i) == i <= MAX_ITERATIONS

\* for _ in range(MAX_ITERATIONS): is there an iteration after i of them?
FanContinues(i) == i < MAX_ITERATIONS

\* IsBetter with <= in place of <: a later iteration of equal score wins
IsBetter_OrEqual(score, best_score) == best_score = None \/ RatLeq(score, Val(best_score))

\* score < best_score, with best_score = None standing for float("inf")
IsBetter(score, best_score) == best_score = None \/ RatLess(score, Val(best_score))

\* distance_error <= TOLERANCE and elev_error <= ELEVATION_TOLERANCE
WithinTolerance(distance_error, elev_error) ==
    RatLeq(distance_error, TOLERANCE) /\ RatLeq(elev_error, ELEVATION_TOLERANCE)

\* elevation_target and uphill_bearing is not None
ElevationChecked(rq, uphill_bearing) ==
    Truthy(rq.elevation_target) /\ uphill_bearing # None

\* the locals of _generate_loop before its first iteration
LoopStart(rq, uphill_bearing, random_bearing) ==
    [ i               |-> 0,
      base_angle      |-> IF uphill_bearing # None
                          THEN Val(uphill_bearing) - (360 \div NUM_WAYPOINTS) \div 2
                          ELSE random_bearing,
      radius_km       |-> Rat(rq.distance_km, NUM_WAYPOINTS),
      target_straight |-> <<0, 1>>,
      elongation      |-> IF ElevationChecked(rq, uphill_bearing)
                          THEN RatAdd(<<1, 1>>,
                                   RatMin(Rat(Val(rq.elevation_target), 50 * 1000), <<3, 1>>))
                          ELSE <<1, 1>>,
      waypoints       |-> <<>>,
      best_result     |-> None,
      best_score      |-> None ]

\* the locals of _generate_out_and_back before its first iteration
OutAndBackStart(rq, uphill_bearing, random_bearing) ==
    [ i               |-> 0,
      base_angle      |-> IF uphill_bearing # None THEN Val(uphill_bearing)
                          ELSE random_bearing,
      radius_km       |-> <<0, 1>>,
      target_straight |-> RatMul(Rat(rq.distance_km, 2),
                                 IF Truthy(rq.elevation_target) THEN <<5, 10>> ELSE <<7, 10>>),
      elongation      |-> <<1, 1>>,
      waypoints       |-> <<>>,
      best_result     |-> None,
      best_score      |-> None ]

\* AdjustElongation without max(1.0, min(..., 5.0))
AdjustElongation_Unclamped(elongation, elevation_target, gain) ==
    RatMul(elongation, Rat(elevation_target, gain))

\* lines 258-259: elev_ratio = elevation_target / gain;
\* elongation = max(1.0, min(elongation * elev_ratio, 5.0))
AdjustElongation(elongation, elevation_target, gain) ==
    RatMax(<<1, 1>>, RatMin(RatMul(elongation, Rat(elevation_target, gain)), <<5, 1>>))

\* one iteration of the fan loop after the router has answered with `result`
\* and, where the elevation is checked, the profile has given `gain`:
\* the new locals, whether the loop goes on, and the exception raised
FanIteration(is_loop, f, rq, checked, result, gain) ==
    LET distance_km    == rq.distance_km
        actual_km      == Routes[result].distance_km
        distance_error == Rat(Abs(actual_km - distance_km), distance_km)
        target         == IF checked THEN Val(rq.elevation_target) ELSE 0
        elev_error     == IF checked /\ target > 0
                          THEN Rat(Abs(gain - target), target) ELSE <<0, 1>>
        elongation     == IF is_loop /\ checked /\ gain > 0
                          THEN AdjustElongation(f.elongation, target, gain)
                          ELSE f.elongation
        score          == RatAdd(distance_error, elev_error)
        better         == IsBetter(score, f.best_score)
        scored         == [f EXCEPT !.elongation  = elongation,
                                    !.best_score  = IF better THEN Some(score) ELSE @,
                                    !.best_result = IF better THEN Some(result) ELSE @,
                                    !.i = @ + 1]
        stop           == WithinTolerance(distance_error, elev_error)
    IN  IF stop
        THEN [f |-> scored, score |-> score, running |-> FALSE, exc |-> None,
              distance_error |-> distance_error, elev_error |-> elev_error]
        ELSE IF actual_km = 0
        THEN [f |-> scored, score |-> score, running |-> FALSE,
              exc |-> Some("ZeroDivisionError"),
              distance_error |-> distance_error, elev_error |-> elev_error]
        ELSE [f |-> IF is_loop
                    THEN [scored EXCEPT !.radius_km = RatMul(@, Rat(distance_km, actual_km))]
                    ELSE [scored EXCEPT !.target_straight = RatMul(@, Rat(distance_km, actual_km))],
              score |-> score,
              running |-> FanContinues(f.i + 1),
              exc |-> None,
              distance_error |-> distance_error, elev_error |-> elev_error]

-----------------------------------------------------------------------------
(* The requests.                                                           *)

ElevationTargets == {None, Some(0), Some(50)}

\* arguments of generate_route (distance in units of 0.4 m, elevation target
\* in units of 0.02 m)
EngineRequests ==
    [loop : BOOLEAN, distance_km : {1000}, elevation_target : ElevationTargets,
     prefer_trails : BOOLEAN]

\* a body of POST /generate as the schema GenerateRequest keeps it (lat and lng
\* do not matter to the model)
HttpRequests ==
    [loop : BOOLEAN, distance_km : {1000}, elevation_target : ElevationTargets]

\* the requests sent, with what became of them: whether a routing request
\* failed, the status of the Overpass request, whether a DEM request raised
NoCalls == [router |-> 0, dem |-> 0, overpass |-> 0,
            routerFailed |-> FALSE, overpassStatus |-> "none", demRaised |-> FALSE]
Running == [kind |-> "running"]
Raised(exc, stage) == [kind |-> "raised", exc |-> exc, at |-> stage]
Returned(value) == [kind |-> "returned", value |-> value]

Init ==
    /\ \/ op = "generate_route" /\ req \in EngineRequests
       \/ op = "generate" /\ req \in HttpRequests
       \/ op = "explore" /\ req = [radius_km |-> 5]
    /\ demMode = "ok"
    /\ pc = IF op = "generate_route" THEN "attractors" ELSE "request"
    /\ trail_attractors = <<>>
    /\ best_bearing = None
    /\ scout = None
    /\ fan = <<>>
    /\ hist = <<>>
    /\ calls = NoCalls
    /\ finish = Running
    /\ http = 0
    /\ dem = Hill
    /\ coordinates = <<>> /\ prof = [pc |-> "off"]
    /\ coords = <<>> /\ spur = [pc |-> "off"]

-----------------------------------------------------------------------------
(* _find_best_bearing called on its own, on the answers the DEM query can  *)
(* give for the 12 scouted points.                                         *)

\* answers of _batch_elevation_query: all null (a non-200 answer), one known
\* elevation among nulls, the terrain's elevations in full, the same with the
\* last result missing, and no result at all
ScoutAnswers ==
    {[k \in 1..NUM_SCOUT_BEARINGS |-> None]}
    \cup {[k \in 1..NUM_SCOUT_BEARINGS |-> IF k = j THEN e ELSE None] :
             j \in 1..NUM_SCOUT_BEARINGS, e \in ElevValues \ {None}}
    \cup {[k \in 1..n |-> DemAt(Hill, ScoutCoords[k])] :
             n \in {0, NUM_SCOUT_BEARINGS - 1, NUM_SCOUT_BEARINGS}}

ScoutInit ==
    /\ scout \in [pc : {"called"}, elevations : ScoutAnswers,
                   radius_km : {ScoutRadius(rq) : rq \in EngineRequests},
                   trail_attractors : AttractorBags, random_bearing : RandomBearings,
                   result : {None}]
    /\ op = "none" /\ req = <<>> /\ pc = "off" /\ demMode = "ok"
    /\ trail_attractors = <<>> /\ best_bearing = None
    /\ fan = <<>> /\ hist = <<>> /\ calls = <<>> /\ finish = <<>> /\ http = 0
    /\ coordinates = <<>> /\ dem = <<>> /\ prof = [pc |-> "off"]
    /\ coords = <<>> /\ spur = [pc |-> "off"]

\* lines 108-129: the scoring of the candidates and the return
FindBestBearing ==
    /\ scout.pc = "called"
    /\ scout' = [scout EXCEPT
                    !.pc = "returned",
                    !.result = Some(_find_best_bearing(scout.elevations, scout.radius_km,
                                        scout.trail_attractors, scout.random_bearing))]
    /\ UNCHANGED <<op, req, pc, demMode, trail_attractors, best_bearing, fan, hist, calls,
                   finish, http, coordinates, dem, prof, coords, spur>>

SpecScout == ScoutInit /\ [][FindBestBearing]_vars

\* C15: when the DEM gives null for all 12 scouted candidates and the
\* attractor bag is empty, _find_best_bearing returns the random draw,
\* whatever that draw is, and not a fixed scouted bearing.
C15_AllNullScoutReturnsRandomDraw ==
    ( /\ scout.pc = "returned"
      /\ Len(scout.elevations) = NUM_SCOUT_BEARINGS
      /\ \A k \in 1..NUM_SCOUT_BEARINGS : scout.elevations[k] = None
      /\ scout.trail_attractors = <<>> )
    => scout.result = Some(scout.random_bearing)

-----------------------------------------------------------------------------
(* api/routes.py                                                           *)

\* status the handler of POST /explore answers with for an exception
explore_status(exc) ==
    IF exc = "OverpassError" THEN 502 ELSE 500

\* status the handler of POST /generate answers with for an exception
generate_status(exc) ==
    IF exc = "ValhallaError" THEN 502 ELSE 500

\* the response of POST /generate once generate_route has ended; a direct call
\* of the engine has no HTTP response
GenerateResponse(fin) ==
    IF op # "generate" THEN 0
    ELSE IF fin.kind = "raised" THEN generate_status(fin.exc)
    ELSE 200

\* generate_route ends with an exception
Ends(exc, stage) ==
    /\ pc' = "done"
    /\ finish' = Raised(exc, stage)
    /\ http' = GenerateResponse(Raised(exc, stage))

\* POST /explore
explore ==
    /\ op = "explore" /\ pc = "request"
    /\ \E o \in OverpassOutcomes :
          LET r == explore_routes(o)
          IN  /\ calls' = [calls EXCEPT !.overpass = @ + 1, !.overpassStatus = o.status]
              /\ IF r.exc = None
                 THEN /\ finish' = Returned(r.attractors)
                      /\ http' = 200
                 ELSE /\ finish' = Raised(Val(r.exc), "explore")
                      /\ http' = explore_status(Val(r.exc))
    /\ pc' = "done"
    /\ UNCHANGED <<op, req, demMode, trail_attractors, best_bearing, scout, fan, hist>>
    /\ UNCHANGED <<coordinates, dem, prof, coords, spur>>

\* POST /generate: the handler builds the arguments of generate_route inside
\* its try block; GenerateRequest has no field prefer_trails, so reading
\* req.prefer_trails raises AttributeError before the engine is entered
generate ==
    /\ op = "generate" /\ pc = "request"
    /\ IF "prefer_trails" \in DOMAIN req
       THEN /\ pc' = "attractors"
            /\ UNCHANGED <<finish, http>>
       ELSE /\ pc' = "done"
            /\ finish' = Raised("AttributeError", "handler")
            /\ http' = generate_status("AttributeError")
    /\ UNCHANGED <<op, req, demMode, trail_attractors, best_bearing, scout, fan, hist, calls>>
    /\ UNCHANGED <<coordinates, dem, prof, coords, spur>>

-----------------------------------------------------------------------------
(* services/route_generator.py: generate_route                             *)

\* FetchAttractors without the exception handlers
FetchAttractors_Uncaught(o) == explore_routes(o)

\* lines 38-44: the fetch inside try / except Exception: an exception of
\* get_trail_attractors leaves the empty bag and is not raised again
FetchAttractors(o) ==
    LET r == get_trail_attractors(o)
    IN  IF r.exc = None THEN r ELSE [exc |-> None, attractors |-> <<>>]

\* lines 34-44: the trail attractors are fetched if the request prefers trails
generate_route_attractors ==
    /\ pc = "attractors"
    /\ IF req.prefer_trails
       THEN \E o \in OverpassOutcomes :
               LET r == FetchAttractors(o)
               IN  /\ calls' = [calls EXCEPT !.overpass = @ + 1, !.overpassStatus = o.status]
                   /\ IF r.exc # None
                      THEN /\ Ends(Val(r.exc), "attractors")
                           /\ UNCHANGED trail_attractors
                      ELSE /\ trail_attractors' = r.attractors
                           /\ pc' = "bearing"
                           /\ UNCHANGED <<finish, http>>
       ELSE /\ trail_attractors' = <<>>
            /\ calls' = calls
            /\ pc' = "bearing"
            /\ UNCHANGED <<finish, http>>
    /\ UNCHANGED <<op, req, demMode, best_bearing, scout, fan, hist>>
    /\ UNCHANGED <<coordinates, dem, prof, coords, spur>>

\* the fan generator is entered with the bearing found
EnterFan(bearing) ==
    /\ best_bearing' = bearing
    /\ \E random_bearing \in RandomBearings :
          fan' = IF req.loop THEN LoopStart(req, bearing, random_bearing)
                 ELSE OutAndBackStart(req, bearing, random_bearing)
    /\ pc' = "fan"
    /\ UNCHANGED <<finish, http>>

\* lines 46-58: the bearing is scouted (one DEM request for the 12 candidates
\* when an elevation target is set) and the fan generator of the shape starts
generate_route_bearing ==
    /\ pc = "bearing"
    /\ IF Truthy(req.elevation_target)
       THEN \E outcomes \in DemAnswers(demMode, 1) :
               LET q == _batch_elevation_query(ScoutCoords, dem, outcomes)
               IN  /\ calls' = [calls EXCEPT !.dem = @ + q.requests, !.demRaised = q.raised]
                   /\ demMode' = DemModeAfter(demMode, outcomes)
                   /\ IF q.raised
                      THEN /\ Ends("ConnectError", "bearing")
                           /\ UNCHANGED <<best_bearing, fan>>
                      ELSE \E random_bearing \in RandomBearings :
                              EnterFan(Some(_find_best_bearing(q.elevations, ScoutRadius(req),
                                                               trail_attractors, random_bearing)))
       ELSE /\ UNCHANGED <<calls, demMode>>
            /\ EnterFan(_find_trail_bearing(trail_attractors))
    /\ UNCHANGED <<op, req, trail_attractors, scout, hist>>
    /\ UNCHANGED <<coordinates, dem, prof, coords, spur>>

\* lines 241-244 and 301-304: the plan of the iteration, from the locals f
FanWaypoints(is_loop, f, uphill_bearing, attractors) ==
    IF is_loop
    THEN _compute_loop_waypoints(f.radius_km, f.base_angle, f.elongation,
                                 uphill_bearing, attractors)
    ELSE OutAndBackWaypoints(f.base_angle, f.target_straight, attractors)

\* one iteration of the loop of a fan generator: the plan, the routing request,
\* the profile of the answer where the elevation is checked, the scoring and
\* the adjustment
FanStep(is_loop) ==
    \E o \in RouterOutcomes :
       LET waypoints == FanWaypoints(is_loop, fan, best_bearing, trail_attractors)
           r       == route(o)
           checked == ElevationChecked(req, best_bearing)
           cs      == Routes[r.result].coordinates
       IN  IF r.exc # None
           THEN /\ calls' = [calls EXCEPT !.router = @ + 1, !.routerFailed = TRUE]
                /\ Ends(Val(r.exc), "fan")
                /\ fan' = [fan EXCEPT !.waypoints = waypoints]
                /\ UNCHANGED <<hist, demMode>>
           ELSE \E outcomes \in DemAnswers(demMode, IF checked THEN NumBatches(Len(cs)) ELSE 0) :
                   LET p    == get_elevation_profile(cs, dem, outcomes)
                       gain == compute_elevation_stats(p.profile)[1]
                       it   == FanIteration(is_loop, fan, req, checked, r.result, gain)
                   IN  /\ demMode' = DemModeAfter(demMode, outcomes)
                       /\ IF checked /\ p.raised
                          THEN /\ calls' = [calls EXCEPT !.router = @ + 1,
                                                         !.dem = @ + p.requests,
                                                         !.demRaised = TRUE]
                               /\ Ends("ConnectError", "fan")
                               /\ fan' = [fan EXCEPT !.waypoints = waypoints]
                               /\ UNCHANGED hist
                          ELSE /\ calls' = [calls EXCEPT !.router = @ + 1,
                                               !.dem = IF checked THEN @ + p.requests ELSE @]
                               /\ fan' = [it.f EXCEPT !.waypoints = waypoints]
                               /\ hist' = Append(hist,
                                     [score           |-> it.score,
                                      result          |-> r.result,
                                      distance_error  |-> it.distance_error,
                                      elev_error      |-> it.elev_error,
                                      gain            |-> IF checked THEN Some(gain) ELSE None,
                                      radius_km       |-> fan.radius_km,
                                      target_straight |-> fan.target_straight,
                                      elongation      |-> fan.elongation])
                               /\ IF it.exc # None THEN Ends(Val(it.exc), "fan")
                                  ELSE /\ pc' = IF it.running THEN "fan" ELSE "assemble"
                                       /\ UNCHANGED <<finish, http>>

\* lines 240-272
_generate_loop ==
    /\ pc = "fan" /\ req.loop
    /\ FanStep(TRUE)
    /\ UNCHANGED <<op, req, trail_attractors, best_bearing, scout>>
    /\ UNCHANGED <<coordinates, dem, prof, coords, spur>>

\* lines 300-327
_generate_out_and_back ==
    /\ pc = "fan" /\ ~req.loop
    /\ FanStep(FALSE)
    /\ UNCHANGED <<op, req, trail_attractors, best_bearing, scout>>
    /\ UNCHANGED <<coordinates, dem, prof, coords, spur>>

\* the spur-removal stage left out
CleanCoords_Unclean(loop, result) == result.coordinates

\* lines 60-64: the polyline of the fan generator's result, with the spurs
\* removed when the shape is loop ("if loop: coords = _remove_spurs(coords)")
CleanCoords(loop, result) ==
    IF loop THEN _remove_spurs(result.coordinates) ELSE result.coordinates

\* lines 60-85: the fan generator has returned its best result; spurs are
\* removed from a loop, the distance is recomputed, the profile built and the
\* feature returned
generate_route_assemble ==
    /\ pc = "assemble"
    /\ LET result   == Routes[Val(fan.best_result)]
           cleaned  == CleanCoords(req.loop, result)
           total_km == _coords_distance_km(cleaned)
       IN  \E outcomes \in DemAnswers(demMode, NumBatches(Len(cleaned))) :
              LET p       == elevation_profile(cleaned, dem, outcomes)
                  feature == [coordinates       |-> cleaned,
                              distance_km       |-> round2(total_km),
                              elevation_gain    |-> p.gain,
                              elevation_loss    |-> p.loss,
                              elevation_profile |-> p.profile]
              IN  /\ calls' = [calls EXCEPT !.dem = @ + p.requests, !.demRaised = p.raised]
                  /\ demMode' = DemModeAfter(demMode, outcomes)
                  /\ IF p.raised THEN Ends("ConnectError", "assemble")
                     ELSE /\ pc' = "done"
                          /\ finish' = Returned(feature)
                          /\ http' = GenerateResponse(Returned(feature))
    /\ UNCHANGED <<op, req, trail_attractors, best_bearing, scout, fan, hist>>
    /\ UNCHANGED <<coordinates, dem, prof, coords, spur>>

Next ==
    \/ explore
    \/ generate
    \/ generate_route_attractors
    \/ generate_route_bearing
    \/ _generate_loop
    \/ _generate_out_and_back
    \/ generate_route_assemble

Spec == Init /\ [][Next]_vars

-----------------------------------------------------------------------------
(* Properties of the engine (checked under Spec).                          *)

FanReturned == pc = "assemble" \/ (pc = "done" /\ finish.kind = "returned" /\ op # "explore")
RaisedAt(stage) == finish.kind = "raised" /\ finish.at = stage

\* the earliest iteration whose score no other iteration undercuts
FirstMin(h) ==
    CHOOSE k \in 1..Len(h) :
        /\ \A j \in 1..Len(h) : ~RatLess(h[j].score, h[k].score)
        /\ \A j \in 1..(k - 1) : RatLess(h[k].score, h[j].score)

\* C1: for both shapes and every sequence of router answers the fan generator
\* sends at most MAX_ITERATIONS = 6 requests to the routing client, whether or
\* not the tolerances are ever met.
C1_AtMostSixRouterCalls == calls.router <= 6

\* a loop request whose six iterations all missed the tolerances
C1_Witness ==
    /\ pc = "assemble" /\ req.loop
    /\ calls.router = 6 /\ Len(hist) = 6
    /\ \A k \in 1..6 : RatLess(TOLERANCE, hist[k].score)

\* the same for an out-and-back request
C1_WitnessOutAndBack ==
    /\ pc = "assemble" /\ ~req.loop
    /\ calls.router = 6 /\ Len(hist) = 6
    /\ \A k \in 1..6 : RatLess(TOLERANCE, hist[k].score)

\* C2: the fan generator returns the result of the iteration with the least
\* score dist_err + elev_err among the iterations carried out, and the
\* earliest of them when several share the least score.
C2_ReturnsEarliestBest ==
    FanReturned => fan.best_result = Some(hist[FirstMin(hist)].result)

\* the best iteration is not the last one, and a later iteration with another
\* result has the same score
C2_Witness ==
    /\ pc = "assemble"
    /\ FirstMin(hist) < Len(hist)
    /\ \E k \in (FirstMin(hist) + 1)..Len(hist) :
          /\ hist[k].score = hist[FirstMin(hist)].score
          /\ hist[k].result # hist[FirstMin(hist)].result

\* C3: whenever every routing request succeeds the fan generator ends by
\* returning a result and never by raising, whatever length >= 0 the router
\* reports (0 included) and even if no iteration meets the tolerances.  (The
\* DEM answers every request in full here.)
C3_FanReturnsWhenRouterSucceeds ==
    (pc = "done" /\ op = "generate_route" /\ ~calls.routerFailed /\ demMode = "ok")
    => ~RaisedAt("fan")

\* C4: a router failure on a fan iteration (router unreachable or non-200
\* answer) ends the request with the upstream-router error, the one the
\* handler of POST /generate maps to HTTP 502, and nothing is returned.
C4_RouterFailureIsUpstreamError ==
    calls.routerFailed
    => /\ pc = "done"
       /\ finish.kind = "raised"
       /\ generate_status(finish.exc) = 502

\* C4, second half: after a router failure no further routing or DEM request
\* is sent.
C4_NoCallAfterRouterFailure ==
    [][calls.routerFailed => calls' = calls]_vars

OverpassFailed == calls.overpassStatus \in {"timeout", "429", "500"}

\* C5: an Overpass failure (timeout, HTTP 429, other non-200) does not end
\* generate_route: the engine goes on with an empty attractor bag, and the
\* request reaches the routing stage unless a DEM network error ends it; the
\* same failure ends POST /explore with HTTP 502.
C5_OverpassFailureFatalOnlyToExplore ==
    OverpassFailed
    => /\ op = "generate_route"
          => /\ trail_attractors = <<>>
             /\ pc # "attractors"
             /\ ~RaisedAt("attractors")
             /\ (pc = "done" /\ ~calls.demRaised) => calls.router >= 1
       /\ op = "explore" => (pc = "done" /\ http = 502)

\* generate_route has returned a route although the Overpass request failed
C5_Witness ==
    /\ op = "generate_route" /\ OverpassFailed
    /\ pc = "done" /\ finish.kind = "returned"
    /\ calls.router >= 1

\* POST /explore has answered an Overpass failure
C5_WitnessExplore ==
    op = "explore" /\ OverpassFailed /\ http = 502

\* C13 as stated: every plan handed to the routing client has at least 2
\* points, its first point equals its last point if and only if the shape is
\* loop, and a loop plan is the start, the 6 fan waypoints and the start.
C13_PlanClosedIffLoop ==
    calls.router >= 1
    => LET w == fan.waypoints
       IN  /\ Len(w) >= 2
           /\ (w[1] = w[Len(w)]) <=> req.loop
           /\ req.loop => (Len(w) = NUM_WAYPOINTS + 2 /\ w[1] = start /\ w[Len(w)] = start)

\* C13 amended: every plan handed to the routing client has at least 2 points
\* and starts and ends at the start point, for both shapes: a loop plan is the
\* start, the 6 fan waypoints and the start, an out-and-back plan is the
\* start, the turnaround point and the start.
C13_PlanStartsAndEndsAtStart ==
    calls.router >= 1
    => LET w == fan.waypoints
       IN  /\ Len(w) >= 2
           /\ w[1] = start /\ w[Len(w)] = start
           /\ Len(w) = IF req.loop THEN NUM_WAYPOINTS + 2 ELSE 3

\* an out-and-back plan whose turnaround is away from the start
C13_Witness ==
    /\ calls.router >= 1 /\ ~req.loop
    /\ fan.waypoints[2] # start
    /\ fan.waypoints[1] = fan.waypoints[3]

\* a loop plan whose fan waypoints are six different points away from the start
C13_WitnessLoop ==
    /\ calls.router >= 1 /\ req.loop
    /\ Cardinality({fan.waypoints[k] : k \in 1..Len(fan.waypoints)}) = NUM_WAYPOINTS + 1

\* the stage that follows each stage of generate_route (lines 34-85)
NextStage ==
    [ request |-> "attractors", attractors |-> "bearing", bearing |-> "fan",
      fan |-> "assemble", assemble |-> "done" ]

\* the stages of a generate request run in order: every step either stays in
\* the fan generator, moves to the following stage or ends with an exception
StagesInOrder ==
    [][op = "generate_route" /\ pc' # pc
         => \/ pc' = NextStage[pc]
            \/ pc' = "done" /\ finish'.kind = "raised"]_vars

\* the feature is assembled from the polyline `cleaned`: its reported distance
\* is recomputed from it and its profile is built from its sampled vertices
DescribesPolyline(feature, cleaned) ==
    /\ feature.coordinates = cleaned
    /\ feature.distance_km = round2(_coords_distance_km(cleaned))
    /\ LET sampled == _sample_coords(cleaned, MAX_POINTS)
       IN  /\ Len(feature.elevation_profile) <= Len(sampled)
           /\ \A k \in 1..Len(feature.elevation_profile) :
                  feature.elevation_profile[k].lng = sampled[k]

\* C14: for shape loop and for shape out-and-back alike, the polyline chosen
\* by the fan generator passes through the spur remover before the distance
\* is recomputed and the profile is built, so the returned feature describes
\* the polyline with its spurs removed; the stages run in order
C14_SpurRemovalForBothShapes ==
    /\ [](op = "generate_route" /\ finish.kind = "returned"
            => DescribesPolyline(finish.value,
                   _remove_spurs(Routes[Val(fan.best_result)].coordinates)))
    /\ StagesInOrder

\* C14 (amended): the stages run in order, and the returned feature describes
\* the polyline that left the spur-removal stage; that stage removes the spurs
\* of a loop and passes an out-and-back polyline on unchanged
C14_SpurRemovalForLoopOnly ==
    /\ [](op = "generate_route" /\ finish.kind = "returned"
            => DescribesPolyline(finish.value,
                   IF req.loop
                   THEN _remove_spurs(Routes[Val(fan.best_result)].coordinates)
                   ELSE Routes[Val(fan.best_result)].coordinates))
    /\ StagesInOrder

\* a loop is returned whose polyline lost a spur, and an out-and-back polyline
\* with a spur is one of the outcomes as well
C14_Witness ==
    /\ op = "generate_route" /\ finish.kind = "returned" /\ req.loop
    /\ Len(finish.value.coordinates) < Len(Routes[Val(fan.best_result)].coordinates)
    /\ Len(finish.value.elevation_profile) > 0

\* an out-and-back is returned with the spur of the router's polyline in it
C14_WitnessOutAndBack ==
    /\ op = "generate_route" /\ finish.kind = "returned" /\ ~req.loop
    /\ _remove_spurs(finish.value.coordinates) # finish.value.coordinates

\* the radius (loop) or the straight-line target (out-and-back) among locals
\* or in an entry of the history
FanReach(f) == IF req.loop THEN f.radius_km ELSE f.target_straight

\* iteration k of the fan loop met both tolerances / was followed by the
\* adjustment r <- r * target / actual_km of the value it used
MetTolerance(k) == WithinTolerance(hist[k].distance_error, hist[k].elev_error)
AdjustedAfter(k, reach) ==
    LET actual_km == Routes[hist[k].result].distance_km
    IN  /\ actual_km # 0
        /\ reach = RatMul(FanReach(hist[k]), Rat(req.distance_km, actual_km))

\* C16: in both fan generators an iteration that measures dist_err <= 0.15
\* and elev_err <= 0.30 is the last one: no routing request follows and the
\* radius (or target_straight) is not adjusted after it; an iteration that
\* misses a tolerance, fewer than 6 having run, is followed by another
\* routing request, made with r * target / actual_km.
C16_ToleranceStopsElseAdjusts ==
    (op = "generate_route" /\ pc \in {"fan", "assemble", "done"})
    => \A k \in 1..Len(hist) :
          IF MetTolerance(k)
          THEN /\ k = Len(hist)
               /\ calls.router = k
               /\ pc # "fan"
               /\ FanReach(fan) = FanReach(hist[k])
          ELSE FanContinues(k)
               => /\ AdjustedAfter(k, IF k < Len(hist) THEN FanReach(hist[k + 1])
                                      ELSE FanReach(fan))
                  /\ \/ calls.router > k
                     \/ pc = "fan"

-----------------------------------------------------------------------------
(* _generate_loop called on its own, the router answering every request    *)
(* and the profile of each answer measuring any of a few gains.            *)

\* elevation targets (units of 0.02 m): unset, 0, 1 m, 500 m and 4000 m; the
\* schema of the request admits no negative target
LoopElevationTargets == {None, Some(0), Some(50), Some(25000), Some(200000)}

\* gains compute_elevation_stats can measure on an answer (units of 0.02 m)
MeasuredGains == {0, 40, 100, 25000}

\* the routes the router answers with: one half as long as asked, which never
\* meets the distance tolerance, and one of the length asked
LoopRoutes == {"half", "exact"}

ElongationInit ==
    /\ op = "_generate_loop"
    /\ req \in [loop : {TRUE}, distance_km : {1000},
                 elevation_target : LoopElevationTargets, prefer_trails : {FALSE}]
    /\ best_bearing \in {None, Some(30)}
    /\ fan = LoopStart(req, best_bearing, 0)
    /\ pc = "fan"
    /\ hist = <<>>
    /\ trail_attractors = <<>> /\ scout = None /\ demMode = "ok"
    /\ calls = NoCalls /\ finish = Running /\ http = 0
    /\ dem = Hill /\ coordinates = <<>> /\ prof = [pc |-> "off"]
    /\ coords = <<>> /\ spur = [pc |-> "off"]

\* lines 240-272: one iteration; hist keeps the record of the last iteration
\* only: the elongation it started with and the gain it measured
GenerateLoopIteration ==
    /\ pc = "fan"
    /\ LET checked == ElevationChecked(req, best_bearing)
       IN  \E result \in LoopRoutes, measured \in MeasuredGains :
              LET gain      == IF checked THEN measured ELSE 0
                  waypoints == FanWaypoints(TRUE, fan, best_bearing, trail_attractors)
                  it        == FanIteration(TRUE, fan, req, checked, result, gain)
              IN  /\ fan' = [it.f EXCEPT !.waypoints = waypoints]
                  /\ hist' = <<[score           |-> it.score,
                                result          |-> result,
                                distance_error  |-> it.distance_error,
                                elev_error      |-> it.elev_error,
                                gain            |-> IF checked THEN Some(gain) ELSE None,
                                radius_km       |-> fan.radius_km,
                                target_straight |-> fan.target_straight,
                                elongation      |-> fan.elongation]>>
                  /\ calls' = [calls EXCEPT !.router = @ + 1,
                                            !.dem = IF checked THEN @ + 1 ELSE @]
                  /\ pc' = IF it.running THEN "fan" ELSE "assemble"
    /\ UNCHANGED <<op, req, demMode, trail_attractors, best_bearing, scout, finish, http>>
    /\ UNCHANGED <<coordinates, dem, prof, coords, spur>>

SpecElongation == ElongationInit /\ [][GenerateLoopIteration]_vars

\* both an elevation target and an uphill bearing are given
BothSet == req.elevation_target # None /\ best_bearing # None

\* clamp(x, 1, 5)
Clamp15(x) == IF RatLess(x, <<1, 1>>) THEN <<1, 1>>
              ELSE IF RatLess(<<5, 1>>, x) THEN <<5, 1>> ELSE x

\* e * target / gain, before the clamp
RawElongation(h) == <<h.elongation[1] * Val(req.elevation_target),
                      h.elongation[2] * Val(h.gain)>>

\* C17: in loop generation the elongation factor is in [1, 5] in every
\* iteration whatever gains are measured; it starts at
\* 1 + min(elevation_target / 1000, 3) when both the elevation target and
\* the uphill bearing are set and at 1 otherwise; an iteration changes it
\* only when it measured a gain > 0, to clamp(e * target / gain, 1, 5); it
\* never changes when no elevation target or no uphill bearing is set.
C17_ElongationClamped ==
    op = "_generate_loop"
    => /\ RatLeq(<<1, 1>>, fan.elongation) /\ RatLeq(fan.elongation, <<5, 1>>)
       /\ fan.i = 0
          => fan.elongation =
                IF BothSet
                THEN RatAdd(<<1, 1>>, RatMin(Rat(Val(req.elevation_target), 50 * 1000),
                                             <<3, 1>>))
                ELSE <<1, 1>>
       /\ fan.i > 0
          => LET h == hist[1]
             IN  IF ~BothSet THEN fan.elongation = <<1, 1>> /\ h.elongation = <<1, 1>>
                 ELSE IF Val(req.elevation_target) = 0
                 THEN fan.elongation = h.elongation /\ h.elongation = <<1, 1>>
                 ELSE /\ h.gain # None
                      /\ fan.elongation =
                            IF Val(h.gain) > 0
                            THEN Rat(Clamp15(RawElongation(h))[1], Clamp15(RawElongation(h))[2])
                            ELSE h.elongation

\* after two iterations or more a measured gain far below the target has
\* pushed e * target / gain above 5 and the elongation was cut back to 5
C17_Witness ==
    /\ op = "_generate_loop" /\ fan.i >= 2 /\ BothSet
    /\ Val(req.elevation_target) > 0 /\ Val(hist[1].gain) > 0
    /\ RatLess(<<5, 1>>, RawElongation(hist[1]))
    /\ RatLess(hist[1].elongation, <<5, 1>>)
    /\ fan.elongation = <<5, 1>>

\* a measured gain far above the target: the elongation was raised back to 1
C17_WitnessLow ==
    /\ op = "_generate_loop" /\ fan.i >= 2 /\ BothSet
    /\ Val(req.elevation_target) > 0 /\ Val(hist[1].gain) > 0
    /\ RatLess(RawElongation(hist[1]), <<1, 1>>)
    /\ RatLess(<<1, 1>>, hist[1].elongation)
    /\ fan.elongation = <<1, 1>>

\* an elongation strictly inside (1, 5) reached by an adjustment, and one kept
\* by an iteration that measured no gain
C17_WitnessInside ==
    /\ op = "_generate_loop" /\ fan.i = MAX_ITERATIONS /\ BothSet
    /\ RatLess(<<1, 1>>, fan.elongation) /\ RatLess(fan.elongation, <<5, 1>>)
    /\ fan.elongation # hist[1].elongation

C17_WitnessNoGain ==
    /\ op = "_generate_loop" /\ fan.i >= 2 /\ BothSet
    /\ hist[1].gain = Some(0)
    /\ fan.elongation = hist[1].elongation /\ RatLess(<<1, 1>>, fan.elongation)

-----------------------------------------------------------------------------
(* An elevation target of 0 (checked under Spec).                          *)

\* the same request with no elevation target
NoTarget(rq) == [rq EXCEPT !.elevation_target = None]

ZeroTarget ==
    /\ op \in {"generate", "generate_route"}
    /\ req.elevation_target = Some(0)

\* every place where generate_route and the fan generators read the request
\* gives, in the present state, what it gives for the request without target:
\* the choice of the scout, the locals the fan generator starts with, the
\* decision to request a profile and the outcome of an iteration on any answer
SameAsNoTarget ==
    /\ Truthy(req.elevation_target) = Truthy(NoTarget(req).elevation_target)
    /\ pc = "bearing"
       => \A b \in {None, Some(0), Some(30)}, r \in RandomBearings :
             /\ LoopStart(req, b, r) = LoopStart(NoTarget(req), b, r)
             /\ OutAndBackStart(req, b, r) = OutAndBackStart(NoTarget(req), b, r)
    /\ pc = "fan"
       => /\ ElevationChecked(req, best_bearing)
               = ElevationChecked(NoTarget(req), best_bearing)
          /\ \A result \in RouteIds, gain \in {0, 40} :
                FanIteration(req.loop, fan, req,
                             ElevationChecked(req, best_bearing), result, gain)
                = FanIteration(req.loop, fan, NoTarget(req),
                               ElevationChecked(NoTarget(req), best_bearing), result, gain)

\* C21: a generate request with elevation_target = 0 behaves exactly like the
\* same request with no elevation target: the elevation scout is not run and
\* no profile is requested inside the fan iterations (no DEM request before
\* the final profile; the bearing is the trail bearing), elev_err is 0 in
\* every iteration, the elongation stays 1 and the out-and-back straight
\* factor is 0.7.
C21_ZeroTargetIsNoTarget ==
    ZeroTarget
    => /\ SameAsNoTarget
       /\ pc \in {"attractors", "bearing", "fan", "assemble"} => calls.dem = 0
       /\ pc \in {"fan", "assemble"}
          => /\ best_bearing = _find_trail_bearing(trail_attractors)
             /\ fan.elongation = <<1, 1>>
       /\ \A k \in 1..Len(hist) :
             /\ hist[k].gain = None
             /\ hist[k].elev_error = <<0, 1>>
             /\ hist[k].elongation = <<1, 1>>
       /\ (~req.loop /\ Len(hist) >= 1)
          => hist[1].target_straight = RatMul(Rat(req.distance_km, 2), <<7, 10>>)

\* an out-and-back with target 0 and a trail bearing is returned after two
\* iterations or more: only the target being 0 kept the profile from being
\* requested
C21_Witness ==
    /\ ZeroTarget /\ ~req.loop /\ best_bearing # None
    /\ Len(hist) >= 2
    /\ finish.kind = "returned"

\* the same for a loop
C21_WitnessLoop ==
    /\ ZeroTarget /\ req.loop /\ best_bearing # None
    /\ Len(hist) >= 2
    /\ finish.kind = "returned"

=============================================================================
